---- MODULE Spec2Model ----
(***************************************************************************)
(* Model of the modal text editor of src/src/main.rs: the Editor struct,   *)
(* the run loop with its terminal set-up and tear-down, the mode dispatch  *)
(* and the buffer and cursor operations.                                   *)
(*                                                                         *)
(* A line is a Rust String.  It is modelled as the sequence of its chars;  *)
(* String::len, String::insert, String::remove and String::split_off work  *)
(* on BYTE offsets of the UTF-8 encoding and panic when the offset is not  *)
(* a char boundary, UnicodeWidthStr::width is the number of terminal       *)
(* columns.  cursor_x is used by the code for both.                        *)
(***************************************************************************)
EXTENDS Integers, Sequences, FiniteSets, TLC

\* ------------------------------------------------------------------------
\* Bounds of the model
\* ------------------------------------------------------------------------
\* Most lines the buffer may hold: Enter is not typed into a full buffer.
MaxLines == 3
\* Most characters the buffer may hold: no character is typed into a full one.
MaxChars == 3

\* ------------------------------------------------------------------------
\* Characters and events
\* ------------------------------------------------------------------------
\* The characters with a meaning in Normal mode, and "x" for any other
\* one-byte, one-column character.
AsciiChars == {"q", "i", "h", "j", "k", "l", "x"}
\* "E2": a two-byte, one-column character (U+00E9).
\* "W3": a three-byte, two-column character (U+4E16).
WideChars == {"E2", "W3"}
Chars == AsciiChars \cup WideChars
\* The characters typed into the buffer: one one-byte character stands for
\* all of them, since insert_char treats them alike.
AsciiTyped == {"q"}
AllTyped == AsciiTyped \cup WideChars
\* KeyCode values other than Char(c); "Tab" stands for every KeyCode that no
\* handler names.
SpecialKeys == {"Esc", "Backspace", "Enter", "Tab"}
Keys == Chars \cup SpecialKeys
\* "Resize" stands for every Event that is not Event::Key.
Events == Keys \cup {"Resize"}

\* char::len_utf8
ByteLen(c) == CASE c = "E2" -> 2 [] c = "W3" -> 3 [] OTHER -> 1
\* UnicodeWidthChar::width
CharWidth(c) == CASE c = "W3" -> 2 [] OTHER -> 1

\* String::len: the length in bytes.
RECURSIVE len(_)
len(s) == IF s = <<>> THEN 0 ELSE ByteLen(Head(s)) + len(Tail(s))

\* UnicodeWidthStr::width: the width in terminal columns.
RECURSIVE width(_)
width(s) == IF s = <<>> THEN 0 ELSE CharWidth(Head(s)) + width(Tail(s))

\* str::is_char_boundary: idx is the byte offset of the start of a char, or
\* the length of the string.
is_char_boundary(s, idx) == \E n \in 0..Len(s) : len(SubSeq(s, 1, n)) = idx

\* The number of chars before the char boundary idx.
char_index(s, idx) == CHOOSE n \in 0..Len(s) : len(SubSeq(s, 1, n)) = idx

\* String::insert(idx, c), for idx a char boundary.
string_insert(s, idx, c) ==
    LET n == char_index(s, idx)
    IN  SubSeq(s, 1, n) \o <<c>> \o SubSeq(s, n + 1, Len(s))

\* String::remove(idx) panics unless idx is the offset of a char of s.
can_remove(s, idx) == is_char_boundary(s, idx) /\ idx < len(s)

\* String::remove(idx), for idx the offset of a char.
string_remove(s, idx) ==
    LET n == char_index(s, idx)
    IN  SubSeq(s, 1, n) \o SubSeq(s, n + 2, Len(s))

\* String::split_off(at), for at a char boundary: <<what stays, what is split off>>.
string_split_off(s, at) ==
    LET n == char_index(s, at)
    IN  <<SubSeq(s, 1, n), SubSeq(s, n + 1, Len(s))>>

\* Vec::remove(i) and Vec::insert(i, x), 0-based.
vec_remove(v, i) == SubSeq(v, 1, i) \o SubSeq(v, i + 2, Len(v))
vec_insert(v, i, x) == SubSeq(v, 1, i) \o <<x>> \o SubSeq(v, i + 1, Len(v))

\* ------------------------------------------------------------------------
\* State
\* ------------------------------------------------------------------------
VARIABLES
    content,     \* Editor.content: the lines, content[r + 1] is row r
    cursor_x,    \* Editor.cursor_x
    cursor_y,    \* Editor.cursor_y
    mode,        \* Editor.mode
    quit,        \* Editor.quit
    pc,          \* where Editor::run is
    raw_mode,    \* the terminal is in raw mode
    alt_screen,  \* the terminal shows the alternate screen
    key,         \* the last event event::read returned, "None" before the first
    renders      \* calls of draw_screen since the last event was read

editor == <<content, cursor_x, cursor_y, mode, quit>>
terminal == <<raw_mode, alt_screen>>
vars == <<content, cursor_x, cursor_y, mode, quit, pc, raw_mode, alt_screen, key, renders>>

\* The Editor as a value; panicked is set by an operation that panics, which
\* leaves the fields as they were.
Self ==
    [content |-> content, cursor_x |-> cursor_x, cursor_y |-> cursor_y,
     mode |-> mode, quit |-> quit, panicked |-> FALSE]

panic(e) == [e EXCEPT !.panicked = TRUE]

\* self.content[self.cursor_y]
current_line(e) == e.content[e.cursor_y + 1]

\* ------------------------------------------------------------------------
\* Buffer and cursor operations
\* ------------------------------------------------------------------------
move_cursor_left(e) ==
    IF e.cursor_x > 0 THEN [e EXCEPT !.cursor_x = @ - 1] ELSE e

\* move_cursor_right bounded by the byte length of the line, not its width.
move_cursor_right_by_len(e) ==
    LET line_len == len(current_line(e))
    IN  IF e.cursor_x < line_len THEN [e EXCEPT !.cursor_x = @ + 1] ELSE e

move_cursor_right(e) ==
    LET line_len == width(current_line(e))
    IN  IF e.cursor_x < line_len THEN [e EXCEPT !.cursor_x = @ + 1] ELSE e

\* move_cursor_up without the clamp of cursor_x.
move_cursor_up_no_clamp(e) ==
    IF e.cursor_y > 0 THEN [e EXCEPT !.cursor_y = @ - 1] ELSE e

move_cursor_up(e) ==
    IF e.cursor_y > 0
    THEN LET y == e.cursor_y - 1
             line_len == width(e.content[y + 1])
         IN  [e EXCEPT !.cursor_y = y,
                       !.cursor_x = IF @ > line_len THEN line_len ELSE @]
    ELSE e

\* move_cursor_down without the clamp of cursor_x.
move_cursor_down_no_clamp(e) ==
    IF e.cursor_y < Len(e.content) - 1 THEN [e EXCEPT !.cursor_y = @ + 1] ELSE e

move_cursor_down(e) ==
    IF e.cursor_y < Len(e.content) - 1
    THEN LET y == e.cursor_y + 1
             line_len == width(e.content[y + 1])
         IN  [e EXCEPT !.cursor_y = y,
                       !.cursor_x = IF @ > line_len THEN line_len ELSE @]
    ELSE e

insert_char(e, c) ==
    LET line == current_line(e)
    IN  IF ~is_char_boundary(line, e.cursor_x)
        THEN panic(e)
        ELSE [e EXCEPT !.content[e.cursor_y + 1] = string_insert(line, e.cursor_x, c),
                       !.cursor_x = @ + 1]

\* delete_char without the cursor_y > 0 test before the join: at row 0,
\* column 0 the current line is removed as well, and nothing is left to join.
delete_char_unguarded_join(e) ==
    LET line == current_line(e)
    IN  IF e.cursor_x > 0
        THEN IF ~can_remove(line, e.cursor_x - 1)
             THEN panic(e)
             ELSE [e EXCEPT !.content[e.cursor_y + 1] = string_remove(line, e.cursor_x - 1),
                            !.cursor_x = @ - 1]
        ELSE IF e.cursor_y > 0
        THEN LET removed == vec_remove(e.content, e.cursor_y)
                 y == e.cursor_y - 1
             IN  [e EXCEPT !.content = [removed EXCEPT ![y + 1] = @ \o line],
                           !.cursor_y = y,
                           !.cursor_x = len(removed[y + 1])]
        ELSE [e EXCEPT !.content = vec_remove(e.content, e.cursor_y)]

delete_char(e) ==
    LET line == current_line(e)
    IN  IF e.cursor_x > 0
        THEN IF ~can_remove(line, e.cursor_x - 1)
             THEN panic(e)
             ELSE [e EXCEPT !.content[e.cursor_y + 1] = string_remove(line, e.cursor_x - 1),
                            !.cursor_x = @ - 1]
        ELSE IF e.cursor_y > 0
        THEN LET removed == vec_remove(e.content, e.cursor_y)
                 y == e.cursor_y - 1
             IN  [e EXCEPT !.content = [removed EXCEPT ![y + 1] = @ \o line],
                           !.cursor_y = y,
                           !.cursor_x = len(removed[y + 1])]
        ELSE e

insert_newline(e) ==
    LET line == current_line(e)
    IN  IF ~is_char_boundary(line, e.cursor_x)
        THEN panic(e)
        ELSE LET parts == string_split_off(line, e.cursor_x)
             IN  [e EXCEPT !.content = vec_insert([@ EXCEPT ![e.cursor_y + 1] = parts[1]],
                                                  e.cursor_y + 1, parts[2]),
                           !.cursor_y = @ + 1,
                           !.cursor_x = 0]

\* ------------------------------------------------------------------------
\* Mode dispatch
\* ------------------------------------------------------------------------
\* handle_normal_mode with an arm for Enter, which moves down.
handle_normal_mode_enter_moves(e, k) ==
    CASE k = "q" -> [e EXCEPT !.quit = TRUE]
      [] k = "i" -> [e EXCEPT !.mode = "Insert"]
      [] k = "h" -> move_cursor_left(e)
      [] k \in {"j", "Enter"} -> move_cursor_down(e)
      [] k = "k" -> move_cursor_up(e)
      [] k = "l" -> move_cursor_right(e)
      [] OTHER -> e

\* handle_normal_mode with an arm for 'x', which deletes as Backspace does.
handle_normal_mode_x_deletes(e, k) ==
    CASE k = "q" -> [e EXCEPT !.quit = TRUE]
      [] k = "i" -> [e EXCEPT !.mode = "Insert"]
      [] k = "h" -> move_cursor_left(e)
      [] k = "j" -> move_cursor_down(e)
      [] k = "k" -> move_cursor_up(e)
      [] k = "l" -> move_cursor_right(e)
      [] k = "x" -> delete_char(e)
      [] OTHER -> e

handle_normal_mode(e, k) ==
    CASE k = "q" -> [e EXCEPT !.quit = TRUE]
      [] k = "i" -> [e EXCEPT !.mode = "Insert"]
      [] k = "h" -> move_cursor_left(e)
      [] k = "j" -> move_cursor_down(e)
      [] k = "k" -> move_cursor_up(e)
      [] k = "l" -> move_cursor_right(e)
      [] OTHER -> e

\* handle_insert_mode whose Esc arm also steps the cursor back.
handle_insert_mode_esc_moves(e, k) ==
    CASE k = "Esc" -> move_cursor_left([e EXCEPT !.mode = "Normal"])
      [] k \in Chars -> insert_char(e, k)
      [] k = "Backspace" -> delete_char(e)
      [] k = "Enter" -> insert_newline(e)
      [] OTHER -> e

handle_insert_mode(e, k) ==
    CASE k = "Esc" -> [e EXCEPT !.mode = "Normal"]
      [] k \in Chars -> insert_char(e, k)
      [] k = "Backspace" -> delete_char(e)
      [] k = "Enter" -> insert_newline(e)
      [] OTHER -> e

\* What process_keypress does with the event that event::read returned.
process_event(e, ev) ==
    IF ev \in Keys
    THEN IF e.mode = "Normal" THEN handle_normal_mode(e, ev)
                              ELSE handle_insert_mode(e, ev)
    ELSE e

\* ------------------------------------------------------------------------
\* The run loop
\* ------------------------------------------------------------------------
RECURSIVE TotalChars(_)
TotalChars(v) == IF v = <<>> THEN 0 ELSE Len(Head(v)) + TotalChars(Tail(v))

\* The events the model lets the terminal deliver: in Insert mode only the
\* characters of typed, and nothing that grows the buffer beyond the bounds.
Delivered(ev, typed) ==
    mode = "Insert" =>
        /\ ev \in Chars => ev \in typed /\ TotalChars(content) < MaxChars
        /\ ev = "Enter" => Len(content) < MaxLines

\* terminal::enable_raw_mode()?
EnableRawMode ==
    /\ pc = "enable_raw_mode"
    /\ \/ raw_mode' = TRUE /\ pc' = "enter_alternate_screen"
       \/ raw_mode' = raw_mode /\ pc' = "failed"
    /\ UNCHANGED <<editor, alt_screen, key, renders>>

\* execute!(stdout(), terminal::EnterAlternateScreen)?
EnterAlternateScreen ==
    /\ pc = "enter_alternate_screen"
    /\ \/ alt_screen' = TRUE /\ pc' = "while"
       \/ alt_screen' = alt_screen /\ pc' = "failed"
    /\ UNCHANGED <<editor, raw_mode, key, renders>>

\* The loop with draw_screen called only before the first event.
WhileNotQuit_draws_once ==
    /\ pc = "while"
    /\ pc' = IF quit THEN "leave_alternate_screen"
             ELSE IF key = "None" THEN "draw_screen" ELSE "process_keypress"
    /\ UNCHANGED <<editor, terminal, key, renders>>

\* The loop without its test of self.quit.
WhileNotQuit_ignores_quit ==
    /\ pc = "while"
    /\ pc' = "draw_screen"
    /\ UNCHANGED <<editor, terminal, key, renders>>

\* while !self.quit
WhileNotQuit ==
    /\ pc = "while"
    /\ pc' = IF quit THEN "leave_alternate_screen" ELSE "draw_screen"
    /\ UNCHANGED <<editor, terminal, key, renders>>

\* self.draw_screen()?
DrawScreen ==
    /\ pc = "draw_screen"
    /\ renders' = renders + 1
    /\ pc' \in {"process_keypress", "failed"}
    /\ UNCHANGED <<editor, terminal, key>>

\* self.process_keypress()?  with the events' characters drawn from typed
ProcessKeypress(typed) ==
    /\ pc = "process_keypress"
    /\ \/ \* event::read()? fails
          /\ pc' = "failed"
          /\ UNCHANGED <<editor, key, renders>>
       \/ \E ev \in Events :
            /\ Delivered(ev, typed)
            /\ key' = ev
            /\ renders' = 0
            /\ LET r == process_event(Self, ev)
               IN  /\ content' = r.content
                   /\ cursor_x' = r.cursor_x
                   /\ cursor_y' = r.cursor_y
                   /\ mode' = r.mode
                   /\ quit' = r.quit
                   /\ pc' = IF r.panicked THEN "panicked" ELSE "while"
    /\ UNCHANGED terminal

\* execute!(stdout(), terminal::LeaveAlternateScreen, cursor::Show)?
LeaveAlternateScreen ==
    /\ pc = "leave_alternate_screen"
    /\ \/ alt_screen' = FALSE /\ pc' = "disable_raw_mode"
       \/ alt_screen' = alt_screen /\ pc' = "failed"
    /\ UNCHANGED <<editor, raw_mode, key, renders>>

\* terminal::disable_raw_mode()?
DisableRawMode ==
    /\ pc = "disable_raw_mode"
    /\ \/ raw_mode' = FALSE /\ pc' = "done"
       \/ raw_mode' = raw_mode /\ pc' = "failed"
    /\ UNCHANGED <<editor, alt_screen, key, renders>>

\* Editor::new() and the entry of main
Init ==
    /\ content = << <<>> >>
    /\ cursor_x = 0
    /\ cursor_y = 0
    /\ mode = "Normal"
    /\ quit = FALSE
    /\ pc = "enable_raw_mode"
    /\ raw_mode = FALSE
    /\ alt_screen = FALSE
    /\ key = "None"
    /\ renders = 0

Next ==
    \/ EnableRawMode
    \/ EnterAlternateScreen
    \/ WhileNotQuit
    \/ DrawScreen
    \/ ProcessKeypress(AllTyped)
    \/ LeaveAlternateScreen
    \/ DisableRawMode

Spec == Init /\ [][Next]_vars

\* The same program when only one-byte, one-column characters are typed.
NextAscii ==
    \/ EnableRawMode
    \/ EnterAlternateScreen
    \/ WhileNotQuit
    \/ DrawScreen
    \/ ProcessKeypress(AsciiTyped)
    \/ LeaveAlternateScreen
    \/ DisableRawMode

SpecAscii == Init /\ [][NextAscii]_vars

\* ------------------------------------------------------------------------
\* Properties
\* ------------------------------------------------------------------------
\* A step of process_keypress in which event::read returned an event; the
\* event is key'.
KeyStep == pc = "process_keypress" /\ pc' # "failed"

\* s with ch inserted at character index c is t.
InsertedAt(s, c, ch, t) ==
    /\ c <= Len(s)
    /\ t = SubSeq(s, 1, c) \o <<ch>> \o SubSeq(s, c + 1, Len(s))

\* C1: in every reachable state, whatever characters were typed, the cursor
\* satisfies 0 <= row < line count and 0 <= column <= display width of the
\* current line.
C1_CursorInvariant ==
    /\ 0 <= cursor_y /\ cursor_y < Len(content)
    /\ 0 <= cursor_x /\ cursor_x <= width(content[cursor_y + 1])

\* C2: the buffer is never empty: the line count is at least 1 in every
\* reachable state, also after backspace on the only remaining line.
C2_BufferNeverEmpty == Len(content) >= 1

\* C2 witness: backspace was pressed in Insert mode and left the only line
\* empty.
C2_Witness ==
    /\ key = "Backspace" /\ mode = "Insert" /\ pc = "while"
    /\ content = << <<>> >>

\* C3: every engine operation is total: from a state that satisfies the
\* cursor invariants no key event panics; each one yields a successor state.
C3_OperationsTotal ==
    [][(KeyStep /\ C1_CursorInvariant) => pc' # "panicked"]_vars

\* C4: the termination flag is set only by 'q' in Normal mode; in Insert mode
\* no key sets it, and 'q' inserts the character 'q' into the current line at
\* the cursor.
C4_QuitOnlyInNormal ==
    [][/\ (~quit /\ quit') => (KeyStep /\ mode = "Normal" /\ key' = "q")
       /\ (KeyStep /\ mode = "Insert") => quit' = quit
       /\ (KeyStep /\ mode = "Insert" /\ key' = "q") =>
            /\ pc' # "panicked"
            /\ Len(content') = Len(content)
            /\ InsertedAt(content[cursor_y + 1], cursor_x, "q",
                          content'[cursor_y + 1])]_vars

\* C5: from any reachable Insert-mode state with cursor (c, r), Enter and then
\* at once Backspace restore the buffer and the cursor (c, r).
C5_NewlineBackspaceRoundTrip ==
    [][(KeyStep /\ mode = "Insert" /\ key' = "Enter") =>
            /\ pc' # "panicked"
            /\ cursor_x' = 0 /\ cursor_y' = cursor_y + 1
            /\ handle_insert_mode(Self', "Backspace") = Self]_vars

\* C6: Enter in Insert mode increases the line count by exactly 1 from every
\* state, backspace at column 0 of a row > 0 decreases it by exactly 1, and
\* every other step leaves it unchanged.
C6_LineCountLaw ==
    [][Len(content') = Len(content) +
            (IF KeyStep /\ mode = "Insert" /\ key' = "Enter" THEN 1
             ELSE IF /\ KeyStep /\ mode = "Insert" /\ key' = "Backspace"
                     /\ cursor_x = 0 /\ cursor_y > 0 THEN -1
             ELSE 0)]_vars

\* C7: on every exit path of run, the quit command and a failed I/O call
\* alike, raw mode is disabled and the alternate screen is left.
C7_TerminalReleased ==
    pc \in {"done", "failed"} => (~raw_mode /\ ~alt_screen)

C9_QuitIsFinal ==
    /\ [](quit => pc \in {"while", "leave_alternate_screen",
                           "disable_raw_mode", "done", "failed"})
    /\ [][quit => (quit' /\ UNCHANGED <<content, cursor_x, cursor_y, mode, key>>
                         /\ renders' = renders)]_vars

\* C9 witness: the flag was set over a non-empty buffer and run returned.
C9_Witness == quit /\ pc = "done" /\ key = "q" /\ content # << <<>> >>

\* C10: 'i' in Normal mode changes only the mode, to Insert; Escape in Insert
\* mode changes only the mode, to Normal; the mode is always one of the two.
C10_ModeTransitionsPure ==
    /\ [](mode \in {"Normal", "Insert"})
    /\ [][/\ (KeyStep /\ mode = "Normal" /\ key' = "i") =>
                (mode' = "Insert" /\ pc' = "while"
                 /\ UNCHANGED <<content, cursor_x, cursor_y, quit>>)
          /\ (KeyStep /\ mode = "Insert" /\ key' = "Esc") =>
                (mode' = "Normal" /\ pc' = "while"
                 /\ UNCHANGED <<content, cursor_x, cursor_y, quit>>)]_vars

\* C10 witness: 'i' was pressed in Normal mode with the cursor behind text of
\* the buffer ("i" is not among the characters typed in Insert mode).
C10_Witness ==
    /\ key = "i" /\ mode = "Insert" /\ pc = "while"
    /\ cursor_x > 0 /\ Len(content) > 1

\* The keys no arm of the handler of mode m names, and the events that are
\* no key events.
Unrecognized(m, ev) ==
    \/ ev \notin Keys
    \/ m = "Normal" /\ ev \notin {"q", "i", "h", "j", "k", "l"}
    \/ m = "Insert" /\ ev \notin Chars \cup {"Esc", "Backspace", "Enter"}

Min(a, b) == IF a < b THEN a ELSE b

\* C11: an unrecognized key of the current mode, or an event that is no key
\* event, leaves buffer, cursor, mode and termination flag unchanged and
\* raises no error.
C11_UnrecognizedIsNoOp ==
    [][(KeyStep /\ Unrecognized(mode, key')) =>
            (UNCHANGED editor /\ pc' = "while")]_vars

\* C11 witness: Enter was pressed in Normal mode with the cursor behind text.
C11_Witness ==
    /\ key = "Enter" /\ mode = "Normal" /\ pc = "while"
    /\ cursor_x > 0 /\ Len(content) > 1 /\ cursor_y = 0

\* C12: 'k' decrements the row iff row > 0, 'j' increments it iff row < line
\* count - 1, the new column is min(old column, display width of the new
\* current line); at the first (last) row the whole state is unchanged; the
\* buffer is never changed.
C12_VerticalMovesClamp ==
    [][(KeyStep /\ mode = "Normal" /\ key' \in {"j", "k"}) =>
            /\ pc' = "while"
            /\ UNCHANGED <<content, mode, quit>>
            /\ LET moves == IF key' = "k" THEN cursor_y > 0
                                          ELSE cursor_y < Len(content) - 1
                   row == IF key' = "k" THEN cursor_y - 1 ELSE cursor_y + 1
               IN  IF moves
                   THEN /\ cursor_y' = row
                        /\ cursor_x' = Min(cursor_x, width(content[row + 1]))
                   ELSE UNCHANGED <<cursor_x, cursor_y>>]_vars

\* C12 witness: 'j' moved the cursor to the end of a line shorter than the
\* one above it.
C12_Witness ==
    /\ key = "j" /\ mode = "Normal" /\ pc = "while" /\ cursor_y = 1
    /\ cursor_x > 0 /\ cursor_x = width(content[2])
    /\ width(content[1]) > width(content[2])

\* C13: 'h' decrements the column iff column > 0, 'l' increments it iff
\* column < display width of the current line; otherwise the whole state is
\* unchanged; row and buffer are never changed.
C13_HorizontalMovesNoWrap ==
    [][(KeyStep /\ mode = "Normal" /\ key' \in {"h", "l"}) =>
            /\ pc' = "while"
            /\ UNCHANGED <<content, cursor_y, mode, quit>>
            /\ LET moves == IF key' = "h" THEN cursor_x > 0
                            ELSE cursor_x < width(content[cursor_y + 1])
               IN  IF moves
                   THEN cursor_x' = IF key' = "h" THEN cursor_x - 1
                                                  ELSE cursor_x + 1
                   ELSE cursor_x' = cursor_x]_vars

\* C13 witness: 'l' was pressed and the cursor is at the end of a line that
\* is not the last one.
C13_Witness ==
    /\ key = "l" /\ mode = "Normal" /\ pc = "while"
    /\ cursor_x > 0 /\ cursor_x = width(content[cursor_y + 1])
    /\ cursor_y < Len(content) - 1

\* C14: in Insert mode at column 0 of a row > 0, backspace removes the
\* current line, appends it to the line above, leaves the other lines as they
\* are and moves the cursor to (character length of the old line above,
\* row - 1); at row 0, column 0 it leaves the whole state unchanged.
C14_BackspaceJoin ==
    [][(KeyStep /\ mode = "Insert" /\ key' = "Backspace" /\ cursor_x = 0) =>
            /\ pc' = "while"
            /\ IF cursor_y > 0
               THEN /\ content' = SubSeq(content, 1, cursor_y - 1)
                                  \o <<content[cursor_y] \o content[cursor_y + 1]>>
                                  \o SubSeq(content, cursor_y + 2, Len(content))
                    /\ cursor_x' = Len(content[cursor_y])
                    /\ cursor_y' = cursor_y - 1
                    /\ UNCHANGED <<mode, quit>>
               ELSE UNCHANGED editor]_vars

\* C15: in Insert mode Enter at cursor (c, r) splits line r at character
\* index c: line r becomes the part before, the part after is inserted as
\* line r + 1, the other lines keep content and order, the cursor becomes
\* (0, r + 1).
C15_InsertNewlineSplits ==
    [][(KeyStep /\ mode = "Insert" /\ key' = "Enter") =>
            LET line == content[cursor_y + 1]
            IN  /\ pc' = "while"
                /\ cursor_x <= Len(line)
                /\ content' = SubSeq(content, 1, cursor_y)
                              \o <<SubSeq(line, 1, cursor_x),
                                   SubSeq(line, cursor_x + 1, Len(line))>>
                              \o SubSeq(content, cursor_y + 2, Len(content))
                /\ cursor_x' = 0
                /\ cursor_y' = cursor_y + 1
                /\ UNCHANGED <<mode, quit>>]_vars

\* C16: in Insert mode a typed character ch at cursor (c, r) is inserted at
\* character index c of line r, the column grows by exactly 1; row, the other
\* lines and the mode are unchanged.
C16_InsertCharacter ==
    [][(KeyStep /\ mode = "Insert" /\ key' \in Chars) =>
            /\ pc' = "while"
            /\ Len(content') = Len(content)
            /\ InsertedAt(content[cursor_y + 1], cursor_x, key',
                          content'[cursor_y + 1])
            /\ \A r \in 1..Len(content) :
                   r # cursor_y + 1 => content'[r] = content[r]
            /\ cursor_x' = cursor_x + 1
            /\ UNCHANGED <<cursor_y, mode, quit>>]_vars

\* C17: in Insert mode with column > 0, backspace removes exactly the
\* character before character index column of the current line, decrements
\* the column by exactly 1 and leaves row, line count and the other lines
\* unchanged.
C17_InLineBackspace ==
    [][(KeyStep /\ mode = "Insert" /\ key' = "Backspace" /\ cursor_x > 0) =>
            LET line == content[cursor_y + 1]
            IN  /\ pc' = "while"
                /\ cursor_x <= Len(line)
                /\ content' = [content EXCEPT ![cursor_y + 1] =
                                   SubSeq(line, 1, cursor_x - 1)
                                   \o SubSeq(line, cursor_x + 1, Len(line))]
                /\ cursor_x' = cursor_x - 1
                /\ UNCHANGED <<cursor_y, mode, quit>>]_vars

\* C18: when only one-byte, one-column characters are typed, every reachable
\* state satisfies 0 <= row < line count and 0 <= column <= length of the
\* current line, and the index that insert, backspace and newline pass to
\* the line lies within the line: no such operation panics.
C18_AsciiInBounds ==
    /\ [](/\ 0 <= cursor_y /\ cursor_y < Len(content)
          /\ 0 <= cursor_x
          /\ cursor_x <= Len(content[cursor_y + 1])
          /\ cursor_x <= len(content[cursor_y + 1])
          /\ cursor_x <= width(content[cursor_y + 1]))
    /\ [][(KeyStep /\ mode = "Insert"
                   /\ key' \in Chars \cup {"Backspace", "Enter"}) =>
            /\ pc' = "while"
            /\ is_char_boundary(content[cursor_y + 1], cursor_x)
            /\ (key' = "Backspace" /\ cursor_x > 0) =>
                   can_remove(content[cursor_y + 1], cursor_x - 1)]_vars

\* C18 witness: a character was removed by backspace from the middle of a
\* line of one-byte characters, below another line.
C18_Witness ==
    /\ key = "Backspace" /\ mode = "Insert" /\ pc = "while"
    /\ cursor_y > 0 /\ cursor_x > 0
    /\ cursor_x < Len(content[cursor_y + 1])
    /\ \A r \in 1..Len(content) : \A n \in 1..Len(content[r]) :
           content[r][n] \in AsciiChars

\* C19: a step taken while the mode is Normal leaves the sequence of lines
\* as it is: insert, backspace and newline act in Insert mode only.
C19_NormalModeKeepsBuffer ==
    [][mode = "Normal" => content' = content]_vars

\* C19 witness: 'x' was pressed in Normal mode with a character before the
\* cursor, which is still there.
C19_Witness ==
    /\ key = "x" /\ mode = "Normal" /\ pc = "while"
    /\ cursor_x > 0 /\ Len(content[cursor_y + 1]) >= cursor_x

\* The concatenation of the lines of v in order.
RECURSIVE Concat(_)
Concat(v) == IF v = <<>> THEN <<>> ELSE Head(v) \o Concat(Tail(v))

\* C20: the concatenation of all lines grows by exactly the typed character
\* on insert character, shrinks by exactly one character on backspace with
\* column > 0, and is unchanged by every other step (newline, join, moves,
\* mode changes).
C20_TextConservation ==
    [][LET old == Concat(content)
           new == Concat(content')
       IN  IF KeyStep /\ mode = "Insert" /\ key' \in Chars
           THEN \E n \in 0..Len(old) :
                    new = SubSeq(old, 1, n) \o <<key'>> \o SubSeq(old, n + 1, Len(old))
           ELSE IF KeyStep /\ mode = "Insert" /\ key' = "Backspace" /\ cursor_x > 0
           THEN \E n \in 1..Len(old) :
                    new = SubSeq(old, 1, n - 1) \o SubSeq(old, n + 1, Len(old))
           ELSE new = old]_vars

====
